---- MODULE Spec2Model ----
(***************************************************************************)
(* Model of the profile recommender of salihRogo/movie-recommender:        *)
(* backend/app/services/unified_recommender_service.py                     *)
(* (UnifiedRecommenderService) and the /recommendations/by_profile         *)
(* endpoint of backend/app/main.py.                                        *)
(*                                                                         *)
(* Specifications.                                                         *)
(*  - Spec: load_model in one step, by_profile requests, store outages.    *)
(*  - SpecStartup: the load task of startup_event step by step, with a     *)
(*    request answered at any of its positions.                            *)
(*  - SpecAnyMaps: Spec over model files of any content.                   *)
(*  - SpecResolver: the identifier resolvers of UnifiedRecommenderService  *)
(*    and of MovieDataService called on their own.                         *)
(*  - SpecEnrich: get_movie_details_by_ids called on its own.              *)
(*  - SpecReload: load_model called again beside a running request.        *)
(*  - SpecWorkers: forward resolver calls in several worker threads, each  *)
(*    counter increment a read followed by a write.                        *)
(*  - SpecRounding: requests on a model whose liked vectors add up beyond  *)
(*    the exact range, the liked ids in every order.                       *)
(*                                                                         *)
(* Conventions.                                                            *)
(*  - A Python str is a sequence of one-character strings, so that         *)
(*    startswith('tt'), imdb_id[2:] and f"tt{...}" are computed.           *)
(*  - A Python dict is a sequence of <<key, value>> pairs with distinct    *)
(*    keys, in insertion order (the order .items() and .keys() iterate).   *)
(*  - A numpy matrix is a sequence of rows; row i (0-based) is qi[i+1].    *)
(*  - Embedding entries are integers.  The additions of np.mean are        *)
(*    rounded as floating-point additions are, in a format of MantissaBits *)
(*    bits; the division by the count and the cosine similarity are        *)
(*    compared in exact arithmetic.                                        *)
(***************************************************************************)
EXTENDS Integers, Sequences, FiniteSets, TLC

\* ------------------------------------------------------------------------
\* Bounds of the model
\* ------------------------------------------------------------------------
\* longest liked list of a request
MaxLiked == 2
\* largest n of a request
MaxN == 2
\* cap on _mapping_stats['total_requests']
MaxRequests == 2
\* longest batch of ids handed to a resolver or to the enrichment
MaxBatch == 3

\* worker threads of the thread pool that resolve identifiers at the same time
MaxThreads == 2

\* bits of the mantissa of a floating-point number (float64 has 53): integers
\* below 2^MantissaBits are exact, larger ones are rounded
MantissaBits == 3

\* ------------------------------------------------------------------------
\* Program constants
\* ------------------------------------------------------------------------
TOP_N_POPULAR_FALLBACK == 20

\* ------------------------------------------------------------------------
\* Python helpers
\* ------------------------------------------------------------------------
Min(a, b) == IF a <= b THEN a ELSE b
Max(a, b) == IF a >= b THEN a ELSE b

\* s[:k], negative k counting from the end
PySlice(s, k) ==
    IF k >= 0 THEN SubSeq(s, 1, Min(k, Len(s)))
    ELSE SubSeq(s, 1, Max(Len(s) + k, 0))

\* set of the elements of a sequence
Range(s) == {s[i] : i \in 1..Len(s)}

\* number of positions of s whose element is in the set S
RECURSIVE CountIn(_, _)
CountIn(s, S) ==
    IF s = <<>> THEN 0
    ELSE (IF Head(s) \in S THEN 1 ELSE 0) + CountIn(Tail(s), S)

\* all sequences over S of length at most k
RECURSIVE SeqsUpTo(_, _)
SeqsUpTo(S, k) ==
    IF k = 0 THEN {<<>>}
    ELSE LET shorter == SeqsUpTo(S, k - 1)
         IN  shorter \cup {Append(s, x) : s \in {t \in shorter : Len(t) = k - 1}, x \in S}

\* all orderings of a finite set, as sequences
RECURSIVE Perms(_)
Perms(S) ==
    IF S = {} THEN {<<>>}
    ELSE UNION {{<<x>> \o p : p \in Perms(S \ {x})} : x \in S}

\* str.startswith('tt')
tt == <<"t", "t">>
startswith_tt(s) == Len(s) >= 2 /\ SubSeq(s, 1, 2) = tt
\* imdb_id[2:]
strip_tt(s) == SubSeq(s, 3, Len(s))
\* f"tt{imdb_id}"
add_tt(s) == tt \o s

\* dict operations
DictKeys(d) == [i \in 1..Len(d) |-> d[i][1]]
DictHas(d, k) == \E i \in 1..Len(d) : d[i][1] = k
DictGet(d, k) == d[CHOOSE i \in 1..Len(d) : d[i][1] = k][2]

\* ------------------------------------------------------------------------
\* Vectors and cosine similarity (sklearn.metrics.pairwise.cosine_similarity)
\* ------------------------------------------------------------------------
RECURSIVE dot(_, _)
dot(a, b) ==
    IF a = <<>> \/ b = <<>> THEN 0
    ELSE Head(a) * Head(b) + dot(Tail(a), Tail(b))

sqnorm(a) == dot(a, a)

\* the distance between neighbouring floating-point numbers at magnitude x
RECURSIVE ulp(_)
ulp(x) == IF x < 2^MantissaBits THEN 1 ELSE 2 * ulp(x \div 2)

\* the floating-point number nearest to x, ties to the even mantissa
fl(x) ==
    LET m == IF x < 0 THEN 0 - x ELSE x
        q == ulp(m)
        lo == (m \div q) * q
        up == \/ 2 * (m - lo) > q
              \/ 2 * (m - lo) = q /\ (lo \div q) % 2 = 1
        r == IF up THEN lo + q ELSE lo
    IN  IF x < 0 THEN 0 - r ELSE r

\* the rows added to the first one, one after the other, each addition rounded
RECURSIVE vsum_from(_, _)
vsum_from(acc, vs) ==
    IF vs = <<>> THEN acc
    ELSE vsum_from([j \in 1..Len(acc) |-> fl(acc[j] + Head(vs)[j])], Tail(vs))

vsum(vs) == vsum_from(Head(vs), Tail(vs))

\* np.mean(item_vectors, axis=0): the element-wise mean, kept exactly as the
\* vector of sums together with the number of rows (mean[j] = sum[j] / count).
np_mean(vs) == [sum |-> vsum(vs), count |-> Len(vs)]

\* the comparison with the signs of the dot products lost
SimCompareSquares(t, x, y) ==
    IF sqnorm(t.sum) = 0 THEN 0
    ELSE LET a == dot(t.sum, x)
             b == dot(t.sum, y)
             p == IF sqnorm(x) = 0 THEN 1 ELSE sqnorm(x)
             q == IF sqnorm(y) = 0 THEN 1 ELSE sqnorm(y)
             l == a * a * q
             r == b * b * p
         IN  IF l > r THEN 1 ELSE IF l < r THEN 0 - 1 ELSE 0

\* Sign of cosine_similarity(t, x) - cosine_similarity(t, y), where t is a
\* mean [sum, count].  cosine_similarity(t, x) = dot(t,x) / (|t| |x|), and 0
\* when t or x has zero norm (sklearn normalises a zero row to itself).  With
\* |t| > 0 the common positive factor 1 / (count * |t|) drops out of the
\* comparison, which leaves dot(sum,x)/|x| against dot(sum,y)/|y|, compared
\* through signs and squares.
SimCompare(t, x, y) ==
    IF sqnorm(t.sum) = 0 THEN 0
    ELSE LET a == dot(t.sum, x)
             b == dot(t.sum, y)
             p == IF sqnorm(x) = 0 THEN 1 ELSE sqnorm(x)
             q == IF sqnorm(y) = 0 THEN 1 ELSE sqnorm(y)
             l == a * a * q
             r == b * b * p
         IN  IF a >= 0 /\ b < 0 THEN 1
             ELSE IF a < 0 /\ b >= 0 THEN 0 - 1
             ELSE IF a >= 0
                  THEN (IF l > r THEN 1 ELSE IF l < r THEN 0 - 1 ELSE 0)
                  ELSE (IF l < r THEN 1 ELSE IF l > r THEN 0 - 1 ELSE 0)

\* ------------------------------------------------------------------------
\* Identifiers
\* ------------------------------------------------------------------------
\* Python None, as returned by _get_raw_movie_id_from_imdb_id
None == <<"None">>

A == <<"A">>
B == <<"B">>
C == <<"C">>
D == <<"D">>
P1 == <<"p", "1">>
P2 == <<"p", "2">>
tt7 == <<"t", "t", "7">>
tt8 == <<"t", "t", "8">>
tt9 == <<"t", "t", "9">>
ml1 == <<"1">>
ml2 == <<"2">>
ml3 == <<"3">>

\* the liked identifiers a request is built from: a key of the newer models,
\* an id the links table knows and one only enhanced_links knows
LikedIds == {A, tt7, tt9}

\* ------------------------------------------------------------------------
\* Model artifacts on disk (the joblib files load_model reads).  A catalog is
\* the content of svd_model_components['qi'], raw_to_inner_iid_map,
\* inner_to_raw_iid_map and all_movie_imdb_ids.  The files are written
\* independently, so besides consistent catalogs there are drifted ones.
\* ------------------------------------------------------------------------
\* the scenario of the specification: keys A..D, listed in all_movie_imdb_ids
CatScenario ==
    [qi |-> << <<1, 0>>, <<0, 1>>, <<1, 1>>, <<0 - 1, 0>> >>,
     raw_to_inner_iid_map |-> << <<A, 0>>, <<B, 1>>, <<C, 2>>, <<D, 3>> >>,
     inner_to_raw_iid_map |-> << <<0, A>>, <<1, B>>, <<2, C>>, <<3, D>> >>,
     all_movie_imdb_ids |-> {A, B, C, D}]

\* the same with an all_movie_imdb_ids file that does not list the keys
CatScenarioNoIds ==
    [qi |-> << <<1, 0>>, <<0, 1>>, <<1, 1>>, <<0 - 1, 0>> >>,
     raw_to_inner_iid_map |-> << <<A, 0>>, <<B, 1>>, <<C, 2>>, <<D, 3>> >>,
     inner_to_raw_iid_map |-> << <<0, A>>, <<1, B>>, <<2, C>>, <<3, D>> >>,
     all_movie_imdb_ids |-> {}]

\* an older model keyed by MovieLens ids: both conversions go to the store
CatMovieLens ==
    [qi |-> << <<1, 0>>, <<1, 1>>, <<0, 1>> >>,
     raw_to_inner_iid_map |-> << <<ml1, 0>>, <<ml2, 1>>, <<ml3, 2>> >>,
     inner_to_raw_iid_map |-> << <<0, ml1>>, <<1, ml2>>, <<2, ml3>> >>,
     all_movie_imdb_ids |-> {tt7, tt8}]

\* maps from a larger training run than the matrix: indices >= itemCount
CatDrift ==
    [qi |-> << <<1, 0>> >>,
     raw_to_inner_iid_map |-> << <<B, 0>>, <<A, 5>> >>,
     inner_to_raw_iid_map |-> << <<0, B>>, <<5, A>> >>,
     all_movie_imdb_ids |-> {A, B}]

\* a matrix from a smaller training run than the maps: the candidate C has
\* no row, the liked keys A and B have one
CatDriftItems ==
    [qi |-> << <<1, 0>>, <<0, 1>> >>,
     raw_to_inner_iid_map |-> << <<A, 0>>, <<B, 1>>, <<C, 2>> >>,
     inner_to_raw_iid_map |-> << <<0, A>>, <<1, B>>, <<2, C>> >>,
     all_movie_imdb_ids |-> {A, B, C}]

\* a model trained on no item
CatEmpty ==
    [qi |-> <<>>,
     raw_to_inner_iid_map |-> <<>>,
     inner_to_raw_iid_map |-> <<>>,
     all_movie_imdb_ids |-> {}]

Catalogs == {CatScenario, CatScenarioNoIds, CatMovieLens, CatDrift, CatDriftItems, CatEmpty}

\* content of popular_movies_fallback.joblib when a cache was persisted earlier
CachedPopular == <<P1, P2>>

\* ------------------------------------------------------------------------
\* The mapping store (the database behind _db_engine): tables links,
\* enhanced_links and ratings.  Rows are fixed; the order in which a query
\* without ORDER BY returns its rows is not.
\* ------------------------------------------------------------------------
\* links(movieId, imdbId): two MovieLens ids share the IMDb id 7
LinksRows ==
    {[movieId |-> ml1, imdbId |-> <<"7">>],
     [movieId |-> ml2, imdbId |-> <<"8">>],
     [movieId |-> ml3, imdbId |-> <<"7">>]}

\* enhanced_links(imdb_id, movielens_id, confidence): no two rows of an
\* imdb_id tie on confidence
EnhancedRows ==
    {[imdb_id |-> tt9, movielens_id |-> ml2, confidence |-> 90],
     [imdb_id |-> tt9, movielens_id |-> ml3, confidence |-> 70]}

\* movieId column of the popularity query over ratings (GROUP BY movieId
\* HAVING COUNT(*) > MIN_RATINGS_FOR_POPULARITY ORDER BY num_ratings DESC)
RatingsPopular == <<ml2, ml1>>

\* the row orders the store may answer a query in.  The only query on
\* enhanced_links is ORDER BY confidence DESC LIMIT 1, which these rows
\* make independent of their order.
ScanOrders ==
    {[links |-> l, enhanced |-> e] :
        l \in Perms(LinksRows), e \in {CHOOSE p \in Perms(EnhancedRows) : TRUE}}

\* one of the row orders
SomeScan == CHOOSE o \in ScanOrders : TRUE

\* the row orders that can make a difference: those of a store that answers
ScansOf(d) == IF d.engine /\ d.up THEN ScanOrders ELSE {SomeScan}

\* ------------------------------------------------------------------------
\* _mapping_stats
\* ------------------------------------------------------------------------
ZeroStats ==
    [direct_hits |-> 0, enhanced_hits |-> 0, misses |-> 0, total_requests |-> 0, errors |-> 0]

BumpNothing(stats, field) == stats

Bump(stats, field) == [stats EXCEPT ![field] = @ + 1]

\* ------------------------------------------------------------------------
\* UnifiedRecommenderService._get_raw_movie_id_from_imdb_id
\*   db = [engine |-> BOOLEAN, up |-> BOOLEAN, has_enhanced |-> BOOLEAN];
\*   a query on a store that is not up raises inside the try block.
\* Returns the result, the updated counters and the number of times the store
\* was contacted.
\* ------------------------------------------------------------------------
_get_raw_movie_id_from_imdb_id(imdb_id, raw_to_inner, db, scan, stats0) ==
    LET s1 == Bump(stats0, "total_requests")
    IN  IF DictHas(raw_to_inner, imdb_id)
        THEN [ret |-> imdb_id, stats |-> Bump(s1, "direct_hits"), queries |-> 0]
        ELSE
        LET db_imdb_id == IF startswith_tt(imdb_id) THEN strip_tt(imdb_id) ELSE imdb_id
            links_hit == SelectSeq(scan.links, LAMBDA r : r.imdbId = db_imdb_id)
            links_raises == db.engine /\ ~db.up
            links_found == db.engine /\ db.up /\ links_hit # <<>>
            s2 == IF links_raises THEN Bump(s1, "errors") ELSE s1
            q2 == IF db.engine THEN 1 ELSE 0
        IN  IF links_found
            THEN [ret |-> links_hit[1].movieId, stats |-> Bump(s2, "direct_hits"), queries |-> q2]
            ELSE
            LET enhanced_imdb_id == IF startswith_tt(imdb_id) THEN imdb_id ELSE add_tt(imdb_id)
                cand == SelectSeq(scan.enhanced, LAMBDA r : r.imdb_id = enhanced_imdb_id)
                \* ORDER BY confidence DESC LIMIT 1: a row of greatest confidence
                best == SelectSeq(cand, LAMBDA r : \A o \in Range(cand) : o.confidence <= r.confidence)
                enh_raises == db.engine /\ ~db.up
                enh_found == db.engine /\ db.up /\ db.has_enhanced /\ best # <<>>
                s3 == IF enh_raises THEN Bump(s2, "errors") ELSE s2
                q3 == q2 + (IF db.engine THEN 1 ELSE 0)
            IN  IF enh_found
                THEN [ret |-> best[1].movielens_id, stats |-> Bump(s3, "enhanced_hits"), queries |-> q3]
                ELSE [ret |-> None, stats |-> Bump(s3, "misses"), queries |-> q3]

\* ------------------------------------------------------------------------
\* UnifiedRecommenderService._get_imdb_ids_from_raw_ids
\* Returns the converted list and the number of queries sent.
\* ------------------------------------------------------------------------
\* the except branch of the conversion (lines 421-423): an exception of the
\* query is logged and an empty list returned
conversion_error_propagates(queries) == [ids |-> <<>>, queries |-> queries, raised |-> TRUE]

conversion_error(queries) == [ids |-> <<>>, queries |-> queries, raised |-> FALSE]

\* every id of the batch is an IMDb id already (line 397)
all_external(raw_ids, all_ids) ==
    \A i \in 1..Len(raw_ids) : startswith_tt(raw_ids[i]) \/ raw_ids[i] \in all_ids

_get_imdb_ids_from_raw_ids(raw_ids, all_ids, db, scan) ==
    IF raw_ids = <<>> THEN [ids |-> <<>>, queries |-> 0, raised |-> FALSE]
    ELSE IF all_external(raw_ids, all_ids)
    THEN [ids |-> raw_ids, queries |-> 0, raised |-> FALSE]
    ELSE IF ~db.engine THEN [ids |-> <<>>, queries |-> 0, raised |-> FALSE]
    ELSE IF ~db.up THEN conversion_error(1)
    ELSE LET result == SelectSeq(scan.links, LAMBDA r : r.movieId \in Range(raw_ids))
         IN  [ids |-> [i \in 1..Len(result) |->
                          IF startswith_tt(result[i].imdbId) THEN result[i].imdbId
                          ELSE add_tt(result[i].imdbId)],
              queries |-> 1, raised |-> FALSE]

\* ------------------------------------------------------------------------
\* numpy row access self.algo.qi[i]: a negative i counts from the end, and an
\* i outside [-rows, rows) raises IndexError.
\* ------------------------------------------------------------------------
qi_index_ok(qi, i) == 0 - Len(qi) <= i /\ i < Len(qi)
qi_row(qi, i) == IF i >= 0 THEN qi[i + 1] ELSE qi[Len(qi) + i + 1]

\* the row accesses made for the indices s, in order: all of them, or those up
\* to and including the first access that raises
RECURSIVE RowAccesses(_, _)
RowAccesses(qi, s) ==
    IF s = <<>> THEN <<>>
    ELSE IF ~qi_index_ok(qi, Head(s)) THEN <<Head(s)>>
    ELSE <<Head(s)>> \o RowAccesses(qi, Tail(s))

\* list.sort(key=similarity, reverse=True) of the scored candidates, a stable
\* sort: the next element is always the earliest one of greatest similarity.
\* A candidate is [raw_id, vec]; t is the taste vector.
RECURSIVE SortBySimilarity(_, _)
RECURSIVE SortLatestFirst(_, _)
\* a sort that puts the latest of the candidates of greatest similarity first
SortLatestFirst(scores, t) ==
    IF scores = <<>> THEN <<>>
    ELSE LET i == CHOOSE i \in 1..Len(scores) :
                      /\ \A j \in 1..Len(scores) : SimCompare(t, scores[j].vec, scores[i].vec) <= 0
                      /\ \A j \in (i + 1)..Len(scores) : SimCompare(t, scores[j].vec, scores[i].vec) < 0
             rest == SubSeq(scores, 1, i - 1) \o SubSeq(scores, i + 1, Len(scores))
         IN  <<scores[i]>> \o SortLatestFirst(rest, t)

SortBySimilarity(scores, t) ==
    IF scores = <<>> THEN <<>>
    ELSE LET i == CHOOSE i \in 1..Len(scores) :
                      /\ \A j \in 1..Len(scores) : SimCompare(t, scores[j].vec, scores[i].vec) <= 0
                      /\ \A j \in 1..(i - 1) : SimCompare(t, scores[j].vec, scores[i].vec) < 0
             rest == SubSeq(scores, 1, i - 1) \o SubSeq(scores, i + 1, Len(scores))
         IN  <<scores[i]>> \o SortBySimilarity(rest, t)

\* ------------------------------------------------------------------------
\* The pieces of get_recommendations_for_profile
\* ------------------------------------------------------------------------
\* messages
MsgLoading == [kind |-> "model_loading", k |-> 0]
MsgEmptyProfile == [kind |-> "empty_profile", k |-> 0]
MsgNoneFound == [kind |-> "none_found", k |-> 0]
MsgNoneUsable == [kind |-> "none_usable", k |-> 0]
MsgNoPersonalized == [kind |-> "no_personalized", k |-> 0]
MsgGenerated(k) == [kind |-> "generated", k |-> k]
MsgProceed == [kind |-> "proceed", k |-> 0]
\* no message: the call raised
MsgRaised == [kind |-> "IndexError", k |-> 0]

\* lines 539-546: the two checks made before anything is resolved; the message
\* of the fallback to return, or MsgProceed
EntryCheckEmptyFirst(loaded, imdb_ids) ==
    IF imdb_ids = <<>> THEN MsgEmptyProfile
    ELSE IF ~loaded THEN MsgLoading
    ELSE MsgProceed

EntryCheckNoEmpty(loaded, imdb_ids) ==
    IF ~loaded THEN MsgLoading ELSE MsgProceed

EntryCheck(loaded, imdb_ids) ==
    IF ~loaded THEN MsgLoading
    ELSE IF imdb_ids = <<>> THEN MsgEmptyProfile
    ELSE MsgProceed

\* line 558: `raw_id and raw_id in self.raw_to_inner_iid_map`
AcceptsAnyAnswer(raw_to_inner, raw_id) ==
    raw_id # None /\ raw_id # <<>>

Accepts(raw_to_inner, raw_id) ==
    raw_id # None /\ raw_id # <<>> /\ DictHas(raw_to_inner, raw_id)

\* lines 549-559: the liked ids are resolved one after the other; an id that
\* is a key of the raw-to-inner map is taken as it is, any other goes through
\* _get_raw_movie_id_from_imdb_id and is kept only when the answer is a key.
\* acc = [mapped, resolved, stats, queries]; resolved records, per liked id,
\* the answer of the resolution (the id itself, the store's answer, or None).
\* line 552: `imdb_id in self.raw_to_inner_iid_map`, tested before anything
\* else is done with the liked id
direct_key_never(raw_to_inner, imdb_id) == FALSE

direct_key(raw_to_inner, imdb_id) == DictHas(raw_to_inner, imdb_id)

RECURSIVE MapLiked(_, _, _, _, _)
MapLiked(imdb_ids, raw_to_inner, db, scan, acc) ==
    IF imdb_ids = <<>> THEN acc
    ELSE LET imdb_id == Head(imdb_ids)
         IN  IF direct_key(raw_to_inner, imdb_id)
             THEN MapLiked(Tail(imdb_ids), raw_to_inner, db, scan,
                           [acc EXCEPT !.mapped = Append(@, imdb_id),
                                       !.resolved = Append(@, imdb_id)])
             ELSE LET r == _get_raw_movie_id_from_imdb_id(imdb_id, raw_to_inner, db, scan, acc.stats)
                  IN  MapLiked(Tail(imdb_ids), raw_to_inner, db, scan,
                               [mapped |-> IF Accepts(raw_to_inner, r.ret)
                                           THEN Append(acc.mapped, r.ret) ELSE acc.mapped,
                                resolved |-> Append(acc.resolved, r.ret),
                                stats |-> r.stats,
                                queries |-> acc.queries + r.queries])

\* line 575: the boundary check on the liked items' inner ids
valid_inner_unchecked(inner_ids, n_items) == inner_ids

valid_inner(inner_ids, n_items) == SelectSeq(inner_ids, LAMBDA iid : iid < n_items)

\* line 593: `raw_id in mapped_raw_ids`, the test that skips profile items
in_profile_never(raw_id, mapped_raw_ids) == FALSE

in_profile(raw_id, mapped_raw_ids) == raw_id \in Range(mapped_raw_ids)

\* line 597: the boundary check on a candidate's inner id
beyond_matrix_never(inner_id, n_items) == FALSE

beyond_matrix(inner_id, n_items) == inner_id >= n_items

\* line 624: trim to the requested size
trim_nothing(ids, n) == ids

trim_to_requested_size(ids, n) == PySlice(ids, n)

\* line 616: `if not recommended_imdb_ids_to_return`, the test that sends an
\* empty conversion to the popular fallback
personalised_found_always(ids) == TRUE

personalised_found(ids) == ids # <<>>

\* what a call leaves behind when it returns before the stage that fills them
Early(ids, message, stats) ==
    [raised |-> FALSE, ids |-> ids, message |-> message, stats |-> stats,
     mapped_raw_ids |-> <<>>, resolved |-> <<>>, valid_inner_ids |-> <<>>,
     qi_reads |-> <<>>, top_raw_ids |-> <<>>, converted |-> <<>>, queries |-> 0]

\* lines 581-627: from the valid inner ids to the result
RankAndConvert(svc, n, scan, base, valid_inner_ids) ==
    LET n_items == Len(svc.qi)
        taste_reads == RowAccesses(svc.qi, valid_inner_ids)
    IN
    IF \E i \in 1..Len(valid_inner_ids) : ~qi_index_ok(svc.qi, valid_inner_ids[i])
    THEN [base EXCEPT !.raised = TRUE, !.ids = <<>>, !.message = MsgRaised, !.valid_inner_ids = valid_inner_ids,
                      !.qi_reads = taste_reads]
    ELSE
    LET item_vectors == [i \in 1..Len(valid_inner_ids) |-> qi_row(svc.qi, valid_inner_ids[i])]
        average_item_vector == np_mean(item_vectors)
        \* the entries of inner_to_raw_iid_map.items() that reach the row access
        scored == SelectSeq(svc.inner_to_raw_iid_map,
                            LAMBDA e : ~in_profile(e[2], base.mapped_raw_ids) /\ ~beyond_matrix(e[1], n_items))
        score_inner == [i \in 1..Len(scored) |-> scored[i][1]]
        score_reads == RowAccesses(svc.qi, score_inner)
    IN
    IF \E i \in 1..Len(score_inner) : ~qi_index_ok(svc.qi, score_inner[i])
    THEN [base EXCEPT !.raised = TRUE, !.ids = <<>>, !.message = MsgRaised, !.valid_inner_ids = valid_inner_ids,
                      !.qi_reads = taste_reads \o score_reads]
    ELSE
    LET all_similarity_scores ==
            SortBySimilarity([i \in 1..Len(scored) |->
                                 [raw_id |-> scored[i][2], vec |-> qi_row(svc.qi, scored[i][1])]],
                             average_item_vector)
        top == PySlice(all_similarity_scores, n * 2)
        top_raw_ids == [i \in 1..Len(top) |-> top[i].raw_id]
        conv == _get_imdb_ids_from_raw_ids(top_raw_ids, svc.all_movie_imdb_ids, svc.db, scan)
        found == personalised_found(conv.ids)
        to_return == IF found THEN conv.ids ELSE base.ids
        base_message == IF found THEN MsgGenerated(Len(conv.ids)) ELSE MsgNoPersonalized
    IN
    [base EXCEPT !.ids = trim_to_requested_size(to_return, n), !.message = base_message,
                 !.valid_inner_ids = valid_inner_ids, !.qi_reads = taste_reads \o score_reads,
                 !.top_raw_ids = top_raw_ids, !.converted = conv.ids,
                 !.queries = @ + conv.queries]

\* ------------------------------------------------------------------------
\* UnifiedRecommenderService.get_recommendations_for_profile(imdb_ids, n)
\*   svc: the fields of the service; scan: the row order of the store.
\* Returns the pair (ids, message) or raised = TRUE (IndexError), together
\* with the intermediate values of the call and the updated counters.
\* ------------------------------------------------------------------------
get_recommendations_for_profile(svc, imdb_ids, n, scan) ==
    LET popular == PySlice(svc.popular_movie_ids_fallback, n)
        entry == EntryCheck(svc.model_loaded, imdb_ids)
    IN
    IF entry # MsgProceed THEN Early(popular, entry, svc.stats)
    ELSE
    LET m == MapLiked(imdb_ids, svc.raw_to_inner_iid_map, svc.db, scan,
                      [mapped |-> <<>>, resolved |-> <<>>, stats |-> svc.stats, queries |-> 0])
        base == [Early(popular, MsgNoneFound, m.stats) EXCEPT
                    !.mapped_raw_ids = m.mapped, !.resolved = m.resolved,
                    !.queries = m.queries]
    IN
    IF m.mapped = <<>> THEN base
    ELSE
    LET present == SelectSeq(m.mapped, LAMBDA raw_id : DictHas(svc.raw_to_inner_iid_map, raw_id))
        inner_ids == [i \in 1..Len(present) |-> DictGet(svc.raw_to_inner_iid_map, present[i])]
        valid_inner_ids == valid_inner(inner_ids, Len(svc.qi))
    IN
    IF valid_inner_ids = <<>>
    THEN [base EXCEPT !.message = MsgNoneUsable]
    ELSE RankAndConvert(svc, n, scan, base, valid_inner_ids)

\* ------------------------------------------------------------------------
\* UnifiedRecommenderService.get_movie_details_by_ids: one fetch per id,
\* gathered in the order of the ids; a fetch that fails yields None and is
\* filtered out.  api_key: settings.OMDB_API_KEY is set; fetch_ok: the ids
\* whose OMDb fetch succeeds.  A record is identified by its imdb_id.
\* ------------------------------------------------------------------------
\* the None a failed fetch returns, among records
NoRecord == [imdb_id |-> None]

\* a gather that gives up when one fetch fails
get_movie_details_all_or_nothing(imdb_ids, api_key, fetch_ok) ==
    IF ~api_key \/ ~(Range(imdb_ids) \subseteq fetch_ok) THEN <<>>
    ELSE [i \in 1..Len(imdb_ids) |-> [imdb_id |-> imdb_ids[i]]]

get_movie_details_by_ids(imdb_ids, api_key, fetch_ok) ==
    IF ~api_key THEN <<>>
    ELSE LET results == [i \in 1..Len(imdb_ids) |->
                            IF imdb_ids[i] \in fetch_ok THEN [imdb_id |-> imdb_ids[i]]
                            ELSE NoRecord]
         IN  SelectSeq(results, LAMBDA result : result # NoRecord)

\* ------------------------------------------------------------------------
\* UnifiedRecommenderService._calculate_and_store_popular_movies
\*   file = [exists, content]: popular_movies_fallback.joblib;
\*   cache_readable: joblib.load of the file succeeds.
\* Returns the new popular_movie_ids_fallback and the new file.
\* ------------------------------------------------------------------------
RECURSIVE PopularFromRatings(_, _, _, _)
PopularFromRatings(movie_ids, all_ids, db, scan) ==
    IF movie_ids = <<>> THEN <<>>
    ELSE _get_imdb_ids_from_raw_ids(<<Head(movie_ids)>>, all_ids, db, scan).ids
         \o PopularFromRatings(Tail(movie_ids), all_ids, db, scan)

\* lines 225-233: the cache file exists and joblib.load of it succeeds
cache_ignored(file, cache_readable) == FALSE

cache_loaded(file, cache_readable) == file.exists /\ cache_readable

_calculate_and_store_popular_movies(loaded, raw_to_inner, inner_to_raw, all_ids, db, scan, file, cache_readable) ==
    IF cache_loaded(file, cache_readable)
    THEN [popular |-> file.content, file |-> file]
    ELSE IF ~loaded THEN [popular |-> <<>>, file |-> file]
    ELSE IF db.engine /\ ~db.up
    THEN \* the ratings query raises: except branch
         [popular |-> <<>>, file |-> file]
    ELSE LET popular_movies ==
                 IF db.engine THEN PopularFromRatings(RatingsPopular, all_ids, db, scan)
                 ELSE <<>>
         IN  IF popular_movies # <<>>
             THEN LET kept == PySlice(popular_movies, TOP_N_POPULAR_FALLBACK)
                  IN  [popular |-> kept, file |-> [exists |-> TRUE, content |-> kept]]
             ELSE IF inner_to_raw # <<>>
             THEN LET sample == PySlice(DictKeys(raw_to_inner), TOP_N_POPULAR_FALLBACK)
                  IN  [popular |-> sample, file |-> [exists |-> TRUE, content |-> sample]]
             ELSE [popular |-> <<>>, file |-> file]

\* ------------------------------------------------------------------------
\* State
\* ------------------------------------------------------------------------
VARIABLES
    model_loaded,                \* self.model_loaded
    qi,                          \* self.algo.qi
    raw_to_inner_iid_map,        \* self.raw_to_inner_iid_map
    inner_to_raw_iid_map,        \* self.inner_to_raw_iid_map
    all_movie_imdb_ids,          \* self.all_movie_imdb_ids
    popular_movie_ids_fallback,  \* self.popular_movie_ids_fallback
    popular_movies_file,         \* the file self.popular_movies_file names
    db,                          \* UnifiedRecommenderService._db_engine and the store behind it
    mapping_stats,               \* UnifiedRecommenderService._mapping_stats
    models_dir,                  \* the catalog the model files on disk hold
    last,                        \* the request being answered, or idle
    load_pc                      \* where the load task created at startup stands

vars == <<model_loaded, qi, raw_to_inner_iid_map, inner_to_raw_iid_map, all_movie_imdb_ids,
          popular_movie_ids_fallback, popular_movies_file, db, mapping_stats, models_dir, last,
          load_pc>>

model_vars == <<model_loaded, qi, raw_to_inner_iid_map, inner_to_raw_iid_map,
                all_movie_imdb_ids, popular_movie_ids_fallback, popular_movies_file,
                models_dir>>

Idle == [op |-> "idle"]

NoEngine == [engine |-> FALSE, up |-> FALSE, has_enhanced |-> FALSE]

\* the fields of the service a request reads
Service ==
    [model_loaded |-> model_loaded, qi |-> qi,
     raw_to_inner_iid_map |-> raw_to_inner_iid_map,
     inner_to_raw_iid_map |-> inner_to_raw_iid_map,
     all_movie_imdb_ids |-> all_movie_imdb_ids,
     popular_movie_ids_fallback |-> popular_movie_ids_fallback,
     db |-> db, stats |-> mapping_stats]

\* UnifiedRecommenderService.__init__ (main.py line 25), in a process whose
\* models directory may hold a popular-list cache and whose DATABASE_URL may
\* be unset
Init ==
    /\ model_loaded = FALSE
    /\ qi = <<>>
    /\ raw_to_inner_iid_map = <<>>
    /\ inner_to_raw_iid_map = <<>>
    /\ all_movie_imdb_ids = {}
    /\ popular_movie_ids_fallback = <<>>
    /\ popular_movies_file \in {[exists |-> FALSE, content |-> <<>>],
                                [exists |-> TRUE, content |-> CachedPopular]}
    /\ db \in {NoEngine} \cup {[engine |-> TRUE, up |-> TRUE, has_enhanced |-> h] : h \in BOOLEAN}
    /\ mapping_stats = ZeroStats
    /\ models_dir \in Catalogs
    /\ last = Idle
    /\ load_pc = "not_started"

\* ------------------------------------------------------------------------
\* UnifiedRecommenderService.load_model, for the files found on disk, called
\* before the requests:
\*   fail_at = "missing":       a component file does not exist;
\*   fail_at = "components":    joblib.load(components_path) raises;
\*   fail_at = "iid_map":       loading a raw-to-inner map raises (algo.qi is
\*                              already replaced);
\*   fail_at = "inner_iid_map": loading inner_to_raw_iid_map raises;
\*   fail_at = "all_ids":       loading all_movie_imdb_ids raises;
\*   fail_at = "none":          every file loads.
\* ------------------------------------------------------------------------
FailPoints == {"none", "missing", "components", "iid_map", "inner_iid_map", "all_ids"}

load_model(fail_at, cache_readable) ==
    LET cat == models_dir IN
    /\ last = Idle
    /\ qi' = IF fail_at \in {"missing", "components"} THEN qi ELSE cat.qi
    /\ raw_to_inner_iid_map' =
           IF fail_at \in {"inner_iid_map", "all_ids", "none"}
           THEN cat.raw_to_inner_iid_map ELSE raw_to_inner_iid_map
    /\ inner_to_raw_iid_map' =
           IF fail_at \in {"all_ids", "none"}
           THEN cat.inner_to_raw_iid_map ELSE inner_to_raw_iid_map
    /\ all_movie_imdb_ids' =
           IF fail_at = "none" THEN cat.all_movie_imdb_ids ELSE all_movie_imdb_ids
    /\ model_loaded' = (fail_at = "none")
    /\ IF fail_at = "none"
       THEN \E p \in {_calculate_and_store_popular_movies(
                            TRUE, cat.raw_to_inner_iid_map, cat.inner_to_raw_iid_map,
                            cat.all_movie_imdb_ids, db, scan, popular_movies_file,
                            cache_readable) : scan \in ScansOf(db)} :
                /\ popular_movie_ids_fallback' = p.popular
                /\ popular_movies_file' = p.file
       ELSE UNCHANGED <<popular_movie_ids_fallback, popular_movies_file>>
    /\ UNCHANGED <<db, mapping_stats, models_dir, last, load_pc>>

\* ------------------------------------------------------------------------
\* main.get_profile_recommendations: POST /recommendations/by_profile.
\* The request is answered in one step: the service call, then, when ids came
\* back, the enrichment.  An exception of the service call gives status 500.
\* The store answers each call in one of its row orders; a call that makes no
\* query reads none.
\* The requests of a run are a request and its repetitions.
\* ------------------------------------------------------------------------
NRange == 0..MaxN

Profiles == SeqsUpTo(LikedIds, MaxLiked)

\* the answer of the handler: the except branch (lines 115-118) turns an
\* exception into status 500; an empty id list is answered without enrichment
by_profile_response_always_ok(r, details) ==
    [status |-> 200,
     recommendations |-> IF r.raised \/ r.ids = <<>> THEN <<>> ELSE details,
     message |-> r.message]

by_profile_response(r, details) ==
    [status |-> IF r.raised THEN 500 ELSE 200,
     recommendations |-> IF r.raised \/ r.ids = <<>> THEN <<>> ELSE details,
     message |-> r.message]

get_profile_recommendations(imdb_ids, n) ==
    /\ \E r0 \in {get_recommendations_for_profile(Service, imdb_ids, n, SomeScan)} :
       \E r \in (IF r0.queries = 0 THEN {r0}
                 ELSE {get_recommendations_for_profile(Service, imdb_ids, n, scan) :
                          scan \in ScansOf(db)}) :
        /\ r.stats.total_requests <= MaxRequests
        /\ \E api_key \in BOOLEAN, fetch_ok \in SUBSET (Range(r.ids) \cup Range(r.converted)) :
             /\ api_key \/ fetch_ok = {}
             /\ \E resp \in {by_profile_response(
                                   r, get_movie_details_by_ids(r.ids, api_key, fetch_ok))} :
                    last' = [op |-> "by_profile", imdb_ids |-> imdb_ids, n |-> n, r |-> r,
                             during |-> load_pc,
                             fetch_ok |-> fetch_ok,
                             status |-> resp.status,
                             recommendations |-> resp.recommendations,
                             message |-> resp.message]
        /\ mapping_stats' = r.stats
        /\ UNCHANGED <<model_vars, db, load_pc>>

\* the store becomes unreachable, or reachable again
DbOutage ==
    /\ last = Idle
    /\ db.engine /\ db.up
    /\ db' = [db EXCEPT !.up = FALSE]
    /\ UNCHANGED <<model_vars, mapping_stats, last, load_pc>>

DbRecover ==
    /\ last = Idle
    /\ db.engine /\ ~db.up
    /\ db' = [db EXCEPT !.up = TRUE]
    /\ UNCHANGED <<model_vars, mapping_stats, last, load_pc>>

Next ==
    \/ \E fail_at \in FailPoints, cache_readable \in BOOLEAN :
           load_model(fail_at, cache_readable)
    \/ /\ last = Idle
       /\ \E imdb_ids \in Profiles, n \in NRange :
              get_profile_recommendations(imdb_ids, n)
    \/ /\ last # Idle
       /\ \E imdb_ids \in {last.imdb_ids}, n \in {last.n} :
              get_profile_recommendations(imdb_ids, n)
    \/ DbOutage
    \/ DbRecover

Spec == Init /\ [][Next]_vars

\* ------------------------------------------------------------------------
\* The application over model files of any content: load_model assigns what
\* joblib.load returns and checks none of it, so the maps may hold any
\* integer as an inner index.
\* ------------------------------------------------------------------------
\* the liked key A has the inner index -1
CatNegative ==
    [qi |-> << <<1, 0>>, <<0, 1>> >>,
     raw_to_inner_iid_map |-> << <<A, 0 - 1>>, <<B, 0>>, <<C, 1>> >>,
     inner_to_raw_iid_map |-> << <<0 - 1, A>>, <<0, B>>, <<1, C>> >>,
     all_movie_imdb_ids |-> {A, B, C}]

\* the candidate B has an inner index below -itemCount
CatNegativeFar ==
    [qi |-> << <<1, 0>>, <<0, 1>> >>,
     raw_to_inner_iid_map |-> << <<A, 0>>, <<B, 0 - 3>> >>,
     inner_to_raw_iid_map |-> << <<0, A>>, <<0 - 3, B>> >>,
     all_movie_imdb_ids |-> {A, B}]

\* a model of the single item A
CatSingle ==
    [qi |-> << <<1, 0>> >>,
     raw_to_inner_iid_map |-> << <<A, 0>> >>,
     inner_to_raw_iid_map |-> << <<0, A>> >>,
     all_movie_imdb_ids |-> {A}]

CatalogsAnyContent == {CatNegative, CatNegativeFar, CatDrift, CatDriftItems, CatSingle,
                       CatScenarioNoIds}

InitAnyMaps ==
    /\ model_loaded = FALSE
    /\ qi = <<>>
    /\ raw_to_inner_iid_map = <<>>
    /\ inner_to_raw_iid_map = <<>>
    /\ all_movie_imdb_ids = {}
    /\ popular_movie_ids_fallback = <<>>
    /\ popular_movies_file \in {[exists |-> FALSE, content |-> <<>>],
                                [exists |-> TRUE, content |-> CachedPopular]}
    /\ db \in {NoEngine} \cup {[engine |-> TRUE, up |-> TRUE, has_enhanced |-> h] : h \in BOOLEAN}
    /\ mapping_stats = ZeroStats
    /\ models_dir \in CatalogsAnyContent
    /\ last = Idle
    /\ load_pc = "not_started"

SpecAnyMaps == InitAnyMaps /\ [][Next]_vars

\* ------------------------------------------------------------------------
\* Application startup.  main.startup_event creates one task that runs
\* load_model in the thread pool and returns; the requests are served while
\* the task runs.  load_pc is the position of that task in load_model:
\*   "not_started"   the startup event has not run;
\*   "scheduled"     the task exists, load_model has not begun;
\*   "began"         model_loaded = False (line 150) is done;
\*   "components"    the components file is read, algo.qi is replaced;
\*   "iid_map"       raw_to_inner_iid_map is read;
\*   "inner_iid_map" inner_to_raw_iid_map is read;
\*   "loaded"        all_movie_imdb_ids is read and model_loaded = True
\*                   (line 204), the popular list is not yet computed;
\*   "finished"      load_model has returned after reading every file;
\*   "failed"        load_model has returned after a missing file or an
\*                   exception of a read.
\* A run holds one request, answered at any position of the load task.
\* ------------------------------------------------------------------------
startup_event ==
    /\ load_pc = "not_started"
    /\ load_pc' = "scheduled"
    /\ UNCHANGED <<model_vars, db, mapping_stats, last>>

\* the position after the step taken at pc
load_pc_after(pc, fail) ==
    IF pc = "scheduled" THEN "began"
    ELSE IF pc = "loaded" THEN "finished"
    ELSE IF fail THEN "failed"
    ELSE IF pc = "began" THEN "components"
    ELSE IF pc = "components" THEN "iid_map"
    ELSE IF pc = "iid_map" THEN "inner_iid_map"
    ELSE "loaded"

\* model_loaded after the step taken at pc: True is assigned after the last
\* read only, when no read has raised
load_sets_ready_on_error(pc, fail) == pc = "inner_iid_map"

load_sets_ready_early(pc, fail) == ~fail /\ pc \in {"began", "components", "iid_map", "inner_iid_map"}

load_sets_ready(pc, fail) == ~fail /\ pc = "inner_iid_map"

\* one step of the load task: fail says that the files are missing (at
\* "began") or that the read made at this position raises
load_model_step(fail, cache_readable) ==
    LET cat == models_dir
        to == load_pc_after(load_pc, fail)
    IN
    /\ load_pc \in {"scheduled", "began", "components", "iid_map", "inner_iid_map", "loaded"}
    /\ load_pc' = to
    /\ qi' = IF to = "components" THEN cat.qi ELSE qi
    /\ raw_to_inner_iid_map' =
           IF to = "iid_map" THEN cat.raw_to_inner_iid_map ELSE raw_to_inner_iid_map
    /\ inner_to_raw_iid_map' =
           IF to = "inner_iid_map" THEN cat.inner_to_raw_iid_map ELSE inner_to_raw_iid_map
    /\ all_movie_imdb_ids' =
           IF to = "loaded" THEN cat.all_movie_imdb_ids ELSE all_movie_imdb_ids
    /\ model_loaded' = IF to = "finished" THEN model_loaded
                       ELSE load_sets_ready(load_pc, fail)
    /\ IF to = "finished"
       THEN \E p \in {_calculate_and_store_popular_movies(
                            model_loaded, raw_to_inner_iid_map, inner_to_raw_iid_map,
                            all_movie_imdb_ids, db, scan, popular_movies_file,
                            cache_readable) : scan \in ScansOf(db)} :
                /\ popular_movie_ids_fallback' = p.popular
                /\ popular_movies_file' = p.file
       ELSE UNCHANGED <<popular_movie_ids_fallback, popular_movies_file>>
    /\ UNCHANGED <<db, mapping_stats, models_dir, last>>

NextStartup ==
    \/ startup_event
    \/ \E fail \in BOOLEAN, cache_readable \in BOOLEAN :
           load_model_step(fail, cache_readable)
    \/ /\ last = Idle
       /\ \E imdb_ids \in Profiles, n \in NRange :
              get_profile_recommendations(imdb_ids, n)

SpecStartup == Init /\ [][NextStartup]_vars

\* ------------------------------------------------------------------------
\* A reload: load_model called again on a loaded service, after the files
\* were replaced by those of another training run, while a request runs in
\* another worker thread.  Neither load_model nor the request takes a lock.
\* The request reads the fields where its code reads them: model_loaded and
\* raw_to_inner_iid_map first (lines 539-571), then algo.qi,
\* inner_to_raw_iid_map, all_movie_imdb_ids and the popular list (574-619);
\* the steps of the load task may fall between the two.  A run holds one
\* request, begun after the reload was requested.
\* ------------------------------------------------------------------------
reload_requested ==
    /\ load_pc = "not_started" /\ model_loaded /\ last = Idle
    /\ \E cat \in Catalogs : models_dir' = cat
    /\ load_pc' = "scheduled"
    /\ UNCHANGED <<model_loaded, qi, raw_to_inner_iid_map, inner_to_raw_iid_map,
                   all_movie_imdb_ids, popular_movie_ids_fallback, popular_movies_file,
                   db, mapping_stats, last>>

\* lines 539-571: the entry check and the mapping of the liked ids
request_begin(imdb_ids, n) ==
    /\ last = Idle /\ load_pc # "not_started"
    /\ last' = [op |-> "running", imdb_ids |-> imdb_ids, n |-> n,
                seen |-> [model_loaded |-> model_loaded,
                          raw_to_inner_iid_map |-> raw_to_inner_iid_map]]
    /\ UNCHANGED <<model_vars, db, mapping_stats, load_pc>>

\* the fields the two parts of a request have read
observed(seen) ==
    [Service EXCEPT !.model_loaded = seen.model_loaded,
                    !.raw_to_inner_iid_map = seen.raw_to_inner_iid_map]

\* lines 574-627: the ranking and the conversion
request_finish ==
    /\ last.op = "running"
    /\ \E svc \in {observed(last.seen)} :
       \E r \in {get_recommendations_for_profile(svc, last.imdb_ids, last.n, scan) :
                    scan \in ScansOf(db)} :
           /\ last' = [op |-> "by_profile_done", imdb_ids |-> last.imdb_ids, n |-> last.n,
                       svc |-> svc, r |-> r]
           /\ mapping_stats' = r.stats
    /\ UNCHANGED <<model_vars, db, load_pc>>

\* the requests that run beside a reload: one liked id each
ReloadProfiles == {<<x>> : x \in LikedIds}

NextReload ==
    \/ /\ load_pc = "not_started"
       /\ \E fail_at \in FailPoints, cache_readable \in BOOLEAN :
              load_model(fail_at, cache_readable)
    \/ reload_requested
    \/ \E fail \in BOOLEAN, cache_readable \in BOOLEAN :
           load_model_step(fail, cache_readable)
    \/ \E imdb_ids \in ReloadProfiles, n \in NRange : request_begin(imdb_ids, n)
    \/ request_finish

SpecReload == Init /\ [][NextReload]_vars

\* ------------------------------------------------------------------------
\* MovieDataService (movie_data_service.py), the store access of the older
\* recommender.  Its table enhanced_links is queried by the columns movieId
\* and imdbId; rows is that table in the order the store returns it.
\*   fails: the positions of raw_ids whose query raises.
\* ------------------------------------------------------------------------
\* str.replace('tt', '')
RECURSIVE replace_tt(_)
replace_tt(s) ==
    IF Len(s) < 2 THEN s
    ELSE IF SubSeq(s, 1, 2) = tt THEN replace_tt(SubSeq(s, 3, Len(s)))
    ELSE <<Head(s)>> \o replace_tt(Tail(s))

MovieDataService_get_raw_movie_id_from_imdb_id(imdb_id, store, rows, stats0) ==
    IF ~store.engine THEN [ret |-> None, stats |-> stats0]
    ELSE LET s1 == Bump(stats0, "total_requests")
             clean_imdb_id == replace_tt(imdb_id)
             hit == SelectSeq(rows, LAMBDA r : r.imdbId = clean_imdb_id)
         IN  IF ~store.up
             THEN [ret |-> None, stats |-> Bump(Bump(s1, "errors"), "misses")]
             ELSE IF hit # <<>>
             THEN [ret |-> hit[1].movieId, stats |-> Bump(s1, "enhanced_hits")]
             ELSE [ret |-> None, stats |-> Bump(s1, "misses")]

RECURSIVE MovieDataService_convert(_, _, _, _, _)
MovieDataService_convert(raw_ids, i, store, rows, fails) ==
    IF i > Len(raw_ids) THEN <<>>
    ELSE LET raw_id == raw_ids[i]
             hit == SelectSeq(rows, LAMBDA r : r.movieId = raw_id)
             one == IF startswith_tt(raw_id) THEN <<raw_id>>
                    ELSE IF ~store.up \/ i \in fails THEN <<>>
                    ELSE IF hit # <<>> /\ hit[1].imdbId # <<>> THEN <<add_tt(hit[1].imdbId)>>
                    ELSE <<>>
         IN  one \o MovieDataService_convert(raw_ids, i + 1, store, rows, fails)

MovieDataService_get_imdb_ids_from_raw_ids(raw_ids, store, rows, fails) ==
    IF ~store.engine THEN <<>>
    ELSE MovieDataService_convert(raw_ids, 1, store, rows, fails)

\* ------------------------------------------------------------------------
\* The identifier resolvers called on their own, as the unit tests call
\* them, on every state of the service and of the store; a run holds one
\* call.
\* ------------------------------------------------------------------------
\* a MovieLens id the store has no row for
ml4 == <<"4">>

\* raw ids of a batch: MovieLens ids with a links row, one without, and an
\* id that is an IMDb id already
RawIdPool == {ml1, ml2, ml4, tt8}

Batches == SeqsUpTo(RawIdPool, MaxBatch)

\* the ids a forward lookup is asked for
ForwardIds == {A, tt7, tt8, tt9}

call_get_raw_movie_id_from_imdb_id(imdb_id) ==
    /\ \E r \in {_get_raw_movie_id_from_imdb_id(imdb_id, raw_to_inner_iid_map, db, scan,
                                                mapping_stats) : scan \in ScansOf(db)} :
          /\ r.stats.total_requests <= MaxRequests
          /\ last' = [op |-> "forward", service |-> "unified", imdb_id |-> imdb_id,
                      raised |-> FALSE, ret |-> r.ret, stats |-> r.stats]
          /\ mapping_stats' = r.stats
    /\ UNCHANGED <<model_vars, db, load_pc>>

call_get_imdb_ids_from_raw_ids(raw_ids) ==
    /\ \E r \in {_get_imdb_ids_from_raw_ids(raw_ids, all_movie_imdb_ids, db, scan) :
                    scan \in ScansOf(db)} :
          last' = [op |-> "reverse", service |-> "unified", raw_ids |-> raw_ids,
                   raised |-> r.raised, ret |-> r.ids, fails |-> {}]
    /\ UNCHANGED <<model_vars, db, mapping_stats, load_pc>>

call_MovieDataService_forward(imdb_id) ==
    /\ \E r \in {MovieDataService_get_raw_movie_id_from_imdb_id(imdb_id, db, scan.links,
                                                                ZeroStats) :
                    scan \in ScansOf(db)} :
          last' = [op |-> "forward", service |-> "movie_data", imdb_id |-> imdb_id,
                   raised |-> FALSE, ret |-> r.ret, stats |-> r.stats]
    /\ UNCHANGED <<model_vars, db, mapping_stats, load_pc>>

call_MovieDataService_reverse(raw_ids, fails) ==
    /\ \E ret \in {MovieDataService_get_imdb_ids_from_raw_ids(raw_ids, db, scan.links, fails) :
                      scan \in ScansOf(db)} :
          last' = [op |-> "reverse", service |-> "movie_data", raw_ids |-> raw_ids,
                   raised |-> FALSE, ret |-> ret, fails |-> fails]
    /\ UNCHANGED <<model_vars, db, mapping_stats, load_pc>>

NextResolver ==
    \/ \E fail_at \in FailPoints, cache_readable \in BOOLEAN :
           load_model(fail_at, cache_readable)
    \/ DbOutage
    \/ DbRecover
    \/ /\ last = Idle \/ (last.op = "forward" /\ last.service = "unified")
       /\ \E imdb_id \in ForwardIds : call_get_raw_movie_id_from_imdb_id(imdb_id)
    \/ /\ last = Idle
       /\ \E raw_ids \in Batches : call_get_imdb_ids_from_raw_ids(raw_ids)
    \/ /\ last = Idle
       /\ \E imdb_id \in ForwardIds : call_MovieDataService_forward(imdb_id)
    \/ /\ last = Idle
       /\ \E raw_ids \in Batches :
              \E fails \in SUBSET (1..Len(raw_ids)) :
                  call_MovieDataService_reverse(raw_ids, fails)

SpecResolver == Init /\ [][NextResolver]_vars

\* ------------------------------------------------------------------------
\* Metadata enrichment called on its own.  A fetch of one id ends in one of:
\*   "ok"          status 200 and a JSON object with Response == "True";
\*   "http_error"  raise_for_status() raises HTTPStatusError;
\*   "not_found"   a JSON object whose Response is not "True";
\*   "malformed"   response.json() raises;
\*   "timeout"     client.get raises after the timeout.
\* ------------------------------------------------------------------------
FetchOutcomes == {"ok", "http_error", "not_found", "malformed", "timeout"}

\* a helper that answers a not-found response with a record without details
_get_movie_details_placeholder(imdb_id, outcome) ==
    IF outcome \in {"ok", "not_found"} THEN [imdb_id |-> imdb_id] ELSE NoRecord

_get_movie_details_by_imdb_id(imdb_id, outcome) ==
    IF outcome = "ok" THEN [imdb_id |-> imdb_id] ELSE NoRecord

\* the ids enrichment is asked for
DetailIds == {tt7, tt8, tt9}

call_get_movie_details_by_ids(imdb_ids, api_key, outcomes) ==
    LET fetch_ok == {x \in Range(imdb_ids) :
                        _get_movie_details_by_imdb_id(x, outcomes[x]) # NoRecord}
    IN
    /\ last' = [op |-> "details", service |-> "unified", imdb_ids |-> imdb_ids,
                api_key |-> api_key, outcomes |-> outcomes, raised |-> FALSE,
                ret |-> get_movie_details_by_ids(imdb_ids, api_key, fetch_ok)]
    /\ UNCHANGED <<model_vars, db, mapping_stats, load_pc>>

NextEnrich ==
    /\ last = Idle
    /\ \E imdb_ids \in SeqsUpTo(DetailIds, MaxBatch), api_key \in BOOLEAN :
           \E outcomes \in [Range(imdb_ids) -> FetchOutcomes] :
               call_get_movie_details_by_ids(imdb_ids, api_key, outcomes)

SpecEnrich == Init /\ [][NextEnrich]_vars

\* ------------------------------------------------------------------------
\* Properties
\* ------------------------------------------------------------------------
\* a request has been answered; the service fields are those it was answered on
Answered == last # Idle

\* ids is the first n entries of list (all of list when it is shorter)
FirstN(ids, list, n) ==
    /\ Len(ids) = Min(n, Len(list))
    /\ \A i \in 1..Len(ids) : ids[i] = list[i]

\* the liked id at position i of the answered request was resolved to a key
\* of the raw-to-inner map
ResolvedAt(i) ==
    /\ last.r.resolved[i] # None
    /\ DictHas(raw_to_inner_iid_map, last.r.resolved[i])

\* C1: while the model is not loaded, every request (whatever its liked list)
\* gets the first n entries of the popular fallback list and the
\* model-loading message, and nothing is resolved or looked up before that.
C1_NotLoadedFallback ==
    (Answered /\ ~model_loaded) =>
        /\ ~last.r.raised
        /\ FirstN(last.r.ids, popular_movie_ids_fallback, last.n)
        /\ last.r.message = MsgLoading
        /\ last.r.resolved = <<>>
        /\ last.r.queries = 0
        /\ last.r.qi_reads = <<>>

C1_Witness ==
    /\ Answered /\ ~model_loaded
    /\ last.n = 2 /\ Len(last.r.ids) = 2
    /\ Len(popular_movie_ids_fallback) > 2
    /\ \E i \in 1..Len(last.imdb_ids) : DictHas(raw_to_inner_iid_map, last.imdb_ids[i])

\* C2: with the model loaded, an empty liked list gets the first n entries of
\* the popular fallback list and the empty-profile message, without any
\* identifier resolution, store access or embedding-row read.
C2_EmptyProfileFallback ==
    (Answered /\ model_loaded /\ last.imdb_ids = <<>>) =>
        /\ ~last.r.raised
        /\ FirstN(last.r.ids, popular_movie_ids_fallback, last.n)
        /\ last.r.message = MsgEmptyProfile
        /\ last.r.resolved = <<>>
        /\ last.r.queries = 0
        /\ last.r.qi_reads = <<>>

C2_Witness ==
    /\ Answered /\ model_loaded /\ last.imdb_ids = <<>>
    /\ last.n = 1 /\ Len(last.r.ids) = 1
    /\ raw_to_inner_iid_map # <<>>
    /\ db.engine /\ db.up

\* C3: with the model loaded and a non-empty liked list, the liked ids that
\* resolve to a key of the raw-to-inner map are all used, in order, the others
\* are dropped, and the none-found fallback (popular list[:n]) is returned
\* exactly when no liked id resolves.
C3_DropUnresolvable ==
    (Answered /\ model_loaded /\ last.imdb_ids # <<>>) =>
        /\ Len(last.r.resolved) = Len(last.imdb_ids)
        /\ last.r.mapped_raw_ids =
               SelectSeq(last.r.resolved,
                         LAMBDA x : x # None /\ DictHas(raw_to_inner_iid_map, x))
        /\ (last.r.message = MsgNoneFound) <=>
               (\A i \in 1..Len(last.imdb_ids) : ~ResolvedAt(i))
        /\ (last.r.message = MsgNoneFound) =>
               FirstN(last.r.ids, popular_movie_ids_fallback, last.n)

\* one liked id is dropped and the other one is used
C3_Witness ==
    /\ Answered /\ model_loaded /\ Len(last.imdb_ids) = 2
    /\ ~ResolvedAt(1) /\ ResolvedAt(2)
    /\ last.r.resolved[1] # None
    /\ last.r.message.kind = "generated"

\* the fallback case: a store answer that is no key, and a miss
C3_WitnessFallback ==
    /\ Answered /\ model_loaded /\ Len(last.imdb_ids) = 2
    /\ last.r.message = MsgNoneFound
    /\ last.r.resolved[1] # None /\ last.r.resolved[2] = None
    /\ Len(last.r.ids) = 2

\* C4: with the model loaded, when every resolved liked key has an inner index
\* >= the number of rows of qi, the popular list[:n] is returned with the
\* none-usable message, nothing is raised and no embedding row is read.
C4_AllOutOfBoundsFallback ==
    (/\ Answered /\ model_loaded
     /\ last.r.mapped_raw_ids # <<>>
     /\ \A i \in 1..Len(last.r.mapped_raw_ids) :
            DictGet(raw_to_inner_iid_map, last.r.mapped_raw_ids[i]) >= Len(qi)) =>
        /\ ~last.r.raised
        /\ FirstN(last.r.ids, popular_movie_ids_fallback, last.n)
        /\ last.r.message = MsgNoneUsable
        /\ last.r.qi_reads = <<>>

C4_Witness ==
    /\ Answered /\ model_loaded
    /\ last.r.mapped_raw_ids # <<>>
    /\ \A i \in 1..Len(last.r.mapped_raw_ids) :
           DictGet(raw_to_inner_iid_map, last.r.mapped_raw_ids[i]) >= Len(qi)
    /\ qi # <<>>
    /\ Len(last.r.ids) = 2

\* the records of a list of ids
Records(ids) == [i \in 1..Len(ids) |-> [imdb_id |-> ids[i]]]

\* C5 (as stated): with the model loaded, no liked id that was resolved
\* appears in the returned list, in whatever branch the list was produced.
C5_SelfExclusionEverywhere ==
    (Answered /\ model_loaded /\ ~last.r.raised) =>
        \A i \in 1..Len(last.r.resolved) :
            ResolvedAt(i) => last.imdb_ids[i] \notin Range(last.r.ids)

\* C5 (amended): on the personalised path no key a liked id resolved to is
\* among the ranked candidates, so that a reverse conversion that passes the
\* candidates through returns none of them.
C5_SelfExclusionPersonalised ==
    (Answered /\ model_loaded /\ last.r.message.kind = "generated") =>
        /\ Range(last.r.top_raw_ids) \cap Range(last.r.mapped_raw_ids) = {}
        /\ (last.r.converted = last.r.top_raw_ids) =>
               Range(last.r.ids) \cap Range(last.r.mapped_raw_ids) = {}

C5_Witness ==
    /\ Answered /\ model_loaded /\ last.r.message.kind = "generated"
    /\ last.r.converted = last.r.top_raw_ids
    /\ last.r.mapped_raw_ids # <<>>
    /\ Len(last.r.ids) = 2
    /\ \A i \in 1..Len(last.r.mapped_raw_ids) : \E j \in 1..Len(inner_to_raw_iid_map) :
           inner_to_raw_iid_map[j][2] = last.r.mapped_raw_ids[i]

\* C6: the returned id list is never longer than n, and the records of the
\* response are never more than n nor more than the returned ids whose
\* enrichment succeeded.
C6_BoundRespected ==
    Answered =>
        /\ Len(last.r.ids) <= last.n
        /\ Len(last.recommendations) <= last.n
        /\ Len(last.recommendations) <= CountIn(last.r.ids, last.fetch_ok)

C6_Witness ==
    /\ Answered /\ last.r.message.kind = "generated"
    /\ last.n = 1
    /\ Len(last.r.converted) = 2
    /\ Len(last.r.ids) = 1
    /\ Len(last.recommendations) = 1

\* C7 (as stated): when the ranking gives 2n candidates of which at least n,
\* but not all, pass enrichment, the response holds the n best-ranked ones
\* that passed.
C7_OverFetchRecoversEnrichmentLoss ==
    (/\ Answered /\ ~last.r.raised /\ last.n >= 1
     /\ Len(last.r.top_raw_ids) = 2 * last.n
     /\ Len(last.r.converted) = 2 * last.n
     /\ Len(SelectSeq(last.r.converted, LAMBDA x : x \in last.fetch_ok)) >= last.n
     /\ Len(SelectSeq(last.r.converted, LAMBDA x : x \in last.fetch_ok)) < 2 * last.n) =>
        last.recommendations =
            Records(SubSeq(SelectSeq(last.r.converted, LAMBDA x : x \in last.fetch_ok),
                           1, last.n))

\* C7 (amended): only the first n converted candidates are enriched; the
\* response holds exactly those of them whose enrichment succeeded, in order.
C7_EnrichOnlyReturned ==
    (Answered /\ last.r.message.kind = "generated") =>
        last.recommendations =
            Records(SelectSeq(SubSeq(last.r.converted, 1, Min(last.n, Len(last.r.converted))),
                              LAMBDA x : x \in last.fetch_ok))

\* the first of two candidates fails enrichment, the second would pass
C7_Witness ==
    /\ Answered /\ last.r.message.kind = "generated"
    /\ last.n = 1
    /\ Len(last.r.top_raw_ids) = 2 /\ Len(last.r.converted) = 2
    /\ last.r.converted[1] \notin last.fetch_ok
    /\ last.r.converted[2] \in last.fetch_ok
    /\ last.recommendations = <<>>

\* C8: a request repeated on unchanged service fields and store gets the same
\* ordered id list and the same message.
C8_Determinism ==
    [][(/\ last # Idle /\ last' # Idle
        /\ last'.imdb_ids = last.imdb_ids /\ last'.n = last.n
        /\ UNCHANGED <<model_vars, db>>) =>
           (last'.r.ids = last.r.ids /\ last'.r.message = last.r.message)]_vars

\* the fields of the service hold the scenario: four items, keys A..D
ScenarioLoaded ==
    /\ model_loaded
    /\ qi = << <<1, 0>>, <<0, 1>>, <<1, 1>>, <<0 - 1, 0>> >>
    /\ raw_to_inner_iid_map = << <<A, 0>>, <<B, 1>>, <<C, 2>>, <<D, 3>> >>
    /\ inner_to_raw_iid_map = << <<0, A>>, <<1, B>>, <<2, C>>, <<3, D>> >>

\* C9 (as stated): on the scenario, liked = [A] and n = 2 give [C, B].
C9_ScenarioAsStated ==
    (Answered /\ ScenarioLoaded /\ last.imdb_ids = <<A>> /\ last.n = 2) =>
        last.r.ids = <<C, B>>

\* C9 (amended): on the scenario with the keys listed in all_movie_imdb_ids,
\* liked = [A] and n = 2 rank C, B, D and give [C, B].
C9_ScenarioPassThrough ==
    (/\ Answered /\ ScenarioLoaded /\ last.imdb_ids = <<A>> /\ last.n = 2
     /\ {B, C, D} \subseteq all_movie_imdb_ids) =>
        /\ last.r.top_raw_ids = <<C, B, D>>
        /\ last.r.ids = <<C, B>>
        /\ last.r.message.kind = "generated"

C9_Witness ==
    /\ Answered /\ ScenarioLoaded /\ last.imdb_ids = <<A>> /\ last.n = 2
    /\ {B, C, D} \subseteq all_movie_imdb_ids
    /\ last.r.ids = <<C, B>>

C10_WitnessAbsent ==
    /\ Answered /\ model_loaded
    /\ qi = <<>> /\ ~db.engine /\ popular_movie_ids_fallback = <<>>
    /\ last.imdb_ids # <<>>
    /\ last.r.ids = <<>> /\ last.status = 200

\* the four fields load_model reads hold what the files on disk hold
AllFilesRead ==
    /\ qi = models_dir.qi
    /\ raw_to_inner_iid_map = models_dir.raw_to_inner_iid_map
    /\ inner_to_raw_iid_map = models_dir.inner_to_raw_iid_map
    /\ all_movie_imdb_ids = models_dir.all_movie_imdb_ids

\* C11: load_model fails soft.  After a missing file or a read that raised,
\* load_model has returned with model_loaded False, and a request answered
\* after that gets the model-loading fallback with status 200; model_loaded
\* is True only at the positions after the last read, with every field read
\* from the files.
C11_LoadFailsSoft ==
    /\ load_pc = "failed" => ~model_loaded
    /\ model_loaded => (load_pc \in {"loaded", "finished"} /\ AllFilesRead)
    /\ (Answered /\ last.during = "failed") =>
           /\ last.status = 200
           /\ last.r.message = MsgLoading
           /\ FirstN(last.r.ids, popular_movie_ids_fallback, last.n)

\* the read of all_movie_imdb_ids raised after the other files were read, and
\* a request with a liked item of the catalog came after that
C11_Witness ==
    /\ load_pc = "failed" /\ ~model_loaded
    /\ qi # <<>> /\ inner_to_raw_iid_map # <<>> /\ all_movie_imdb_ids = {}
    /\ Answered /\ last.during = "failed"
    /\ \E i \in 1..Len(last.imdb_ids) : DictHas(raw_to_inner_iid_map, last.imdb_ids[i])
    /\ last.r.message = MsgLoading

\* every file was read and the model is ready
C11_WitnessLoaded ==
    /\ load_pc = "finished" /\ model_loaded /\ qi # <<>>

\* the positions of the load task before model_loaded = True (line 204)
BeforeReady ==
    {"not_started", "scheduled", "began", "components", "iid_map", "inner_iid_map"}

\* C12 as stated: a request answered at any position before load_model has
\* returned gets the model-loading fallback.
C12_NotReadyUntilLoadReturns ==
    (Answered /\ last.during \notin {"finished", "failed"}) =>
        (last.status = 200 /\ last.r.message = MsgLoading)

\* C12: requests are answered at every position of the load task, always
\* with status 200; a request answered before model_loaded = True is assigned
\* gets the model-loading message and the popular list of that moment, which
\* is still empty; a request answered while the popular list is computed
\* (model_loaded already True) is served from the loaded model.
C12_StartupLoadInBackground ==
    Answered =>
        /\ last.status = 200 /\ ~last.r.raised
        /\ last.during \in BeforeReady =>
               /\ last.r.message = MsgLoading
               /\ last.r.ids = <<>> /\ last.recommendations = <<>>
               /\ last.r.qi_reads = <<>> /\ last.r.queries = 0
        /\ last.during \in {"loaded", "finished"} => last.r.message # MsgLoading

\* a request was answered while the maps were being read, and the load task
\* went on to its end
C12_Witness ==
    /\ Answered /\ last.during = "iid_map"
    /\ last.imdb_ids # <<>> /\ last.n = 2
    /\ last.r.message = MsgLoading
    /\ load_pc = "finished" /\ model_loaded /\ popular_movie_ids_fallback # <<>>

\* a request answered between model_loaded = True and the end of load_model
\* gets ranked recommendations
C12_WitnessWindow ==
    /\ Answered /\ last.during = "loaded"
    /\ last.r.message.kind = "generated" /\ last.r.ids # <<>>

\* a call of a resolver has returned
Called(op, service) == last.op = op /\ last.service = service

\* a batch converted id by id: an id starting with 'tt' as it is, any other id
\* by its row of the store, none when it has no row; in the order of the batch
RECURSIVE PerElement(_)
PerElement(raw_ids) ==
    IF raw_ids = <<>> THEN <<>>
    ELSE LET hit == {r \in LinksRows : r.movieId = Head(raw_ids)}
             one == IF startswith_tt(Head(raw_ids)) THEN <<Head(raw_ids)>>
                    ELSE IF hit # {} THEN <<add_tt((CHOOSE r \in hit : TRUE).imdbId)>>
                    ELSE <<>>
         IN  one \o PerElement(Tail(raw_ids))

\* C13: with the store answering, the reverse conversion of the recommender
\* returns the batch converted id by id: ids starting with 'tt' unchanged,
\* the others by store lookup, unconvertible ids dropped, input order kept.
C13_MixedBatchPerElement ==
    (Called("reverse", "unified") /\ db.engine /\ db.up) =>
        last.ret = PerElement(last.raw_ids)

\* the store cannot answer: there is no engine, or every query raises
Unavailable == ~db.engine \/ ~db.up

\* the ids of a batch that start with 'tt', in order
ExternalOnly(raw_ids) == SelectSeq(raw_ids, LAMBDA x : startswith_tt(x))

\* the batch without the positions in fails
RECURSIVE Without(_, _, _)
Without(raw_ids, i, fails) ==
    IF i > Len(raw_ids) THEN <<>>
    ELSE (IF i \in fails /\ ~startswith_tt(raw_ids[i]) THEN <<>> ELSE <<raw_ids[i]>>)
         \o Without(raw_ids, i + 1, fails)

\* C14: no resolver call raises.  With no engine or with every query raising,
\* a forward lookup that needs the store returns None and a reverse lookup
\* that needs the store returns the empty list (MovieDataService with an
\* engine: the ids it resolved without a failing query, in order).
C14_ResolversNeverRaise ==
    /\ Called("forward", "unified") =>
           /\ ~last.raised
           /\ (Unavailable /\ ~DictHas(raw_to_inner_iid_map, last.imdb_id)) => last.ret = None
    /\ Called("forward", "movie_data") =>
           /\ ~last.raised
           /\ Unavailable => last.ret = None
    /\ Called("reverse", "unified") =>
           /\ ~last.raised
           /\ (Unavailable /\ ~all_external(last.raw_ids, all_movie_imdb_ids)) => last.ret = <<>>
    /\ Called("reverse", "movie_data") =>
           /\ ~last.raised
           /\ ~db.engine => last.ret = <<>>
           /\ (db.engine /\ ~db.up) => last.ret = ExternalOnly(last.raw_ids)
           /\ (db.engine /\ db.up) => last.ret = PerElement(Without(last.raw_ids, 1, last.fails))

\* the query of a batch of two MovieLens ids raised
C14_Witness ==
    /\ Called("reverse", "unified") /\ db.engine /\ ~db.up
    /\ last.raw_ids = <<ml1, ml2>> /\ last.ret = <<>>

\* a forward lookup of an id the links table knows, without an engine
C14_WitnessForward ==
    /\ Called("forward", "unified") /\ ~db.engine
    /\ last.imdb_id = tt7 /\ last.ret = None /\ last.stats.misses = 1

\* one query of a batch raised: the other ids are returned
C14_WitnessSubset ==
    /\ Called("reverse", "movie_data") /\ db.engine /\ db.up
    /\ last.raw_ids = <<ml1, tt8, ml2>> /\ last.fails = {1}
    /\ last.ret = <<tt8, tt8>>

\* C15: with the API key set, enrichment returns the records of the ids
\* whose fetch succeeded, one per position, in the order of the ids, and
\* nothing for an id whose fetch ended in an HTTP error, a not-found
\* response, a malformed payload or a timeout; a failure changes nothing for
\* the other ids.  Without the key nothing is fetched.
C15_EnrichmentPerId ==
    Called("details", "unified") =>
        /\ ~last.raised
        /\ last.api_key =>
               last.ret = Records(SelectSeq(last.imdb_ids, LAMBDA x : last.outcomes[x] = "ok"))
        /\ ~last.api_key => last.ret = <<>>

\* three ids, the middle one not found
C15_Witness ==
    /\ Called("details", "unified") /\ last.api_key
    /\ last.imdb_ids = <<tt7, tt8, tt9>>
    /\ last.outcomes[tt7] = "ok" /\ last.outcomes[tt8] = "not_found" /\ last.outcomes[tt9] = "ok"
    /\ last.ret = Records(<<tt7, tt9>>)

\* C16: the endpoint answers 200 with an empty recommendations list and the
\* message of the service whenever the service returns no ids, and answers
\* 500 exactly when the service call raised.
C16_EmptyIs200ErrorIs500 ==
    Answered =>
        /\ last.status \in {200, 500}
        /\ (last.status = 500) <=> last.r.raised
        /\ (~last.r.raised /\ last.r.ids = <<>>) =>
               /\ last.status = 200
               /\ last.recommendations = <<>>
               /\ last.message = last.r.message

\* the loaded model finds nothing for a non-empty liked list and the popular
\* list is empty
C16_Witness ==
    /\ Answered /\ model_loaded /\ last.imdb_ids # <<>> /\ last.n > 0
    /\ ~last.r.raised /\ last.r.ids = <<>>
    /\ last.status = 200 /\ last.recommendations = <<>>
    /\ last.message.kind \in {"none_found", "none_usable", "no_personalized"}

\* the service call raised
C16_WitnessError ==
    /\ Answered /\ last.r.raised /\ last.status = 500

\* C17: every row access of a request, for the taste vector and for the
\* scores, uses an inner index in [0, itemCount), whatever the maps hold.
C17_ReadsWithinBounds ==
    Answered =>
        \A i \in 1..Len(last.r.qi_reads) :
            0 <= last.r.qi_reads[i] /\ last.r.qi_reads[i] < Len(qi)

\* C18: on the success path the number k of the "Generated k
\* recommendations" message is the length of the returned id list.
C18_MessageCountIsReturnedLength ==
    (Answered /\ last.r.message.kind = "generated") =>
        last.r.message.k = Len(last.r.ids)

\* the request reached the ranking (lines 588-610)
Ranked == Answered /\ last.r.message.kind \in {"generated", "no_personalized"}

\* C19: the ranked candidates are the catalog entries outside the profile
\* that have a row, ordered by descending similarity to the taste vector,
\* candidates of equal similarity by ascending inner index; top_raw_ids is
\* the first 2n of that order, a function of the fields and the mapped ids.
C19_StableDescendingRanking ==
    Ranked =>
        LET valid == last.r.valid_inner_ids
            t == np_mean([i \in 1..Len(valid) |-> qi_row(qi, valid[i])])
            cand == SelectSeq(inner_to_raw_iid_map,
                              LAMBDA e : e[2] \notin Range(last.r.mapped_raw_ids) /\ e[1] < Len(qi))
            Before(x, y) ==
                \/ SimCompare(t, qi_row(qi, x[1]), qi_row(qi, y[1])) > 0
                \/ /\ SimCompare(t, qi_row(qi, x[1]), qi_row(qi, y[1])) = 0
                   /\ x[1] < y[1]
            top == last.r.top_raw_ids
        IN  /\ Len(top) = Min(2 * last.n, Len(cand))
            /\ \A k \in 1..Len(top) :
                   \E c \in Range(cand) :
                       /\ c[2] = top[k]
                       /\ Cardinality({d \in Range(cand) : Before(d, c)}) = k - 1

\* the two candidates have the same similarity to the taste vector and come
\* in the order of their inner indices
C19_Witness ==
    /\ Ranked /\ last.n = 1
    /\ last.r.mapped_raw_ids = <<ml2>>
    /\ last.r.top_raw_ids = <<ml1, ml3>>
    /\ SimCompare(np_mean(<<qi_row(qi, 1)>>), qi_row(qi, 0), qi_row(qi, 2)) = 0

\* C20: the records of the response follow the ranking: of two records the
\* earlier one belongs to a candidate ranked at least as high as the
\* candidate of the later one, whatever the row order of the store.
C20_ResponseFollowsRanking ==
    (Answered /\ last.r.message.kind = "generated") =>
        LET top == last.r.top_raw_ids
            ImdbOf(raw) ==
                IF all_external(top, all_movie_imdb_ids) THEN raw
                ELSE LET hit == {r \in LinksRows : r.movieId = raw}
                     IN  IF hit = {} THEN None ELSE add_tt((CHOOSE r \in hit : TRUE).imdbId)
            RankOf(x) == CHOOSE k \in 1..Len(top) :
                             /\ ImdbOf(top[k]) = x
                             /\ \A j \in 1..(k - 1) : ImdbOf(top[j]) # x
            recs == last.recommendations
        IN  \A i \in 1..Len(recs) : \A j \in 1..Len(recs) :
                i < j => RankOf(recs[i].imdb_id) <= RankOf(recs[j].imdb_id)

C21_WitnessNoRows ==
    /\ Answered /\ model_loaded /\ last.n = 2
    /\ last.r.top_raw_ids # <<>> /\ last.r.converted = <<>> /\ last.r.queries > 0
    /\ last.r.message = MsgNoPersonalized

\* the model state of one set of files
CompleteModel(svc, cat) ==
    /\ svc.qi = cat.qi
    /\ svc.raw_to_inner_iid_map = cat.raw_to_inner_iid_map
    /\ svc.inner_to_raw_iid_map = cat.inner_to_raw_iid_map
    /\ svc.all_movie_imdb_ids = cat.all_movie_imdb_ids

\* C22: the fields a request that reached the matrix has computed on are
\* not-ready, or the complete model of one set of files (the previous one or
\* the new one), also when load_model runs at the same time.
C22_ReloadIsFullSwap ==
    (last.op = "by_profile_done" /\ last.r.mapped_raw_ids # <<>>) =>
        \/ ~last.svc.model_loaded
        \/ \E cat \in Catalogs : CompleteModel(last.svc, cat)

\* ------------------------------------------------------------------------
\* Forward resolver calls in worker threads.  run_in_threadpool (main.py 99)
\* runs each request in a thread of the pool; _mapping_stats is one dict of
\* the class (40-47) and every increment is  d[key] += 1 : a read of d[key]
\* followed by a write of the value read plus one, with no lock.
\* ------------------------------------------------------------------------
Threads == 1 .. MaxThreads

RECURSIVE Repeat(_, _)
Repeat(x, k) == IF k = 0 THEN <<>> ELSE <<x>> \o Repeat(x, k - 1)

\* the counters one call increments, in the order of the code: total_requests
\* (312), errors once per query that raised (344, 367), then the outcome
counter_increments(imdb_id, raw_to_inner, store, scan) ==
    LET r == _get_raw_movie_id_from_imdb_id(imdb_id, raw_to_inner, store, scan, ZeroStats)
        outcome == CHOOSE f \in {"direct_hits", "enhanced_hits", "misses"} : r.stats[f] = 1
    IN  <<"total_requests">> \o Repeat("errors", r.stats.errors) \o <<outcome>>

IdleThread == [pc |-> "idle", todo |-> <<>>, tmp |-> 0]

\* The threads of the pool are interchangeable: the pool hands a call to the
\* lowest thread that has none.
worker_call(t, imdb_id) ==
    /\ \/ last = Idle /\ t = 1
       \/ /\ last.op = "workers" /\ last.threads[t].pc = "idle"
          /\ \A u \in 1 .. (t - 1) : last.threads[u].pc # "idle"
    /\ \E todo \in {counter_increments(imdb_id, raw_to_inner_iid_map, db, scan) :
                        scan \in ScansOf(db)} :
          LET threads == IF last = Idle THEN [u \in Threads |-> IdleThread] ELSE last.threads
              calls == IF last = Idle THEN 0 ELSE last.calls
          IN  last' = [op |-> "workers", calls |-> calls + 1,
                       threads |-> [threads EXCEPT ![t] =
                                        [pc |-> "load", todo |-> todo, tmp |-> 0]]]
    /\ UNCHANGED <<model_vars, db, mapping_stats, load_pc>>

\* the read of  d[key] += 1
worker_load(t) ==
    /\ last.op = "workers" /\ last.threads[t].pc = "load"
    /\ last' = [last EXCEPT !.threads[t].pc = "store",
                            !.threads[t].tmp = mapping_stats[Head(last.threads[t].todo)]]
    /\ UNCHANGED <<model_vars, db, mapping_stats, load_pc>>

\* the write of  d[key] += 1
worker_store(t) ==
    /\ last.op = "workers" /\ last.threads[t].pc = "store"
    /\ LET th == last.threads[t]
       IN  /\ mapping_stats' = [mapping_stats EXCEPT ![Head(th.todo)] = th.tmp + 1]
           /\ last' = [last EXCEPT !.threads[t].todo = Tail(th.todo),
                                   !.threads[t].tmp = 0,
                                   !.threads[t].pc = IF Tail(th.todo) = <<>> THEN "done"
                                                     ELSE "load"]
    /\ UNCHANGED <<model_vars, db, load_pc>>

NextWorkers ==
    \/ \E cache_readable \in BOOLEAN : load_model("none", cache_readable)
    \/ DbOutage
    \/ \E t \in Threads, imdb_id \in ForwardIds : worker_call(t, imdb_id)
    \/ \E t \in Threads : worker_load(t)
    \/ \E t \in Threads : worker_store(t)

SpecWorkers == Init /\ [][NextWorkers]_vars

\* every thread that was given a call has returned from it
WorkersFinished ==
    /\ last.op = "workers"
    /\ \A t \in Threads : last.threads[t].pc \in {"idle", "done"}

\* C23: when the resolver calls made in worker threads have all returned,
\* total_requests equals the number of calls made: no increment is lost.
C23_NoIncrementLost ==
    WorkersFinished => mapping_stats.total_requests = last.calls

\* the liked ids of the request just answered that are no key of the map
NotDirect(ids) == {i \in 1..Len(ids) : ~DictHas(raw_to_inner_iid_map, ids[i])}

\* C24: a liked id that is a key of the raw-to-inner map is taken as it is,
\* without a resolver call and without a query; any other id goes through the
\* resolver (one call each, which queries the store when there is one) and
\* its answer is used only when it is a key of the map; an id with no answer
\* or an answer that is no key is left out.
C24_ResolutionOrder ==
    [][(last'.op = "by_profile" /\ model_loaded /\ last'.imdb_ids # <<>>) =>
          LET ids == last'.imdb_ids
              r == last'.r
          IN  /\ Len(r.resolved) = Len(ids)
              /\ \A i \in 1..Len(ids) :
                     DictHas(raw_to_inner_iid_map, ids[i]) => r.resolved[i] = ids[i]
              /\ mapping_stats'.total_requests =
                     mapping_stats.total_requests + Cardinality(NotDirect(ids))
              /\ (NotDirect(ids) = {} /\ r.top_raw_ids = <<>>) => r.queries = 0
              /\ (NotDirect(ids) # {} /\ db.engine) => r.queries >= Cardinality(NotDirect(ids))
              /\ \A x \in Range(r.mapped_raw_ids) : DictHas(raw_to_inner_iid_map, x)
              /\ Len(r.mapped_raw_ids) =
                     Cardinality({i \in 1..Len(ids) :
                                     /\ r.resolved[i] # None
                                     /\ DictHas(raw_to_inner_iid_map, r.resolved[i])})
      ]_vars

\* a direct key beside an id that is none: one resolver call, for the second
C24_Witness ==
    /\ last.op = "by_profile" /\ model_loaded /\ Len(last.imdb_ids) = 2
    /\ db.engine /\ db.up
    /\ DictHas(raw_to_inner_iid_map, last.imdb_ids[1])
    /\ ~DictHas(raw_to_inner_iid_map, last.imdb_ids[2])
    /\ last.r.mapped_raw_ids = <<last.imdb_ids[1]>>
    /\ mapping_stats.total_requests = 1

\* the store's answer is a key of the map and is used in place of the id
C24_WitnessStore ==
    /\ last.op = "by_profile" /\ model_loaded /\ Len(last.imdb_ids) = 1
    /\ ~DictHas(raw_to_inner_iid_map, last.imdb_ids[1])
    /\ last.r.mapped_raw_ids = <<last.r.resolved[1]>>

\* the store's answer is no key of the map and the id is left out
C24_WitnessRejected ==
    /\ last.op = "by_profile" /\ model_loaded /\ Len(last.imdb_ids) = 1
    /\ last.r.resolved[1] # None
    /\ ~DictHas(raw_to_inner_iid_map, last.r.resolved[1])
    /\ last.r.mapped_raw_ids = <<>>

\* enrichment was given the ids of the answer and returned fewer records
EnrichmentShrank ==
    /\ last.op = "by_profile" /\ last.status = 200
    /\ last.r.ids # <<>>
    /\ Len(last.recommendations) < Len(last.r.ids)

\* C25: when enrichment returns fewer records than the ids passed to it, the
\* message of the by_profile response is the ranking message with a note
\* appended, not the ranking message alone.
C25_ShrinkIsNoted ==
    EnrichmentShrank => last.message # last.r.message

\* C26: a load that populates the popular list while the cache file exists
\* and can be read leaves the file as it is and makes the popular list equal
\* to the file's content; the file is written, and the list computed from the
\* ratings or the model, only by a load that found no file or could not read it.
C26_CacheFirst ==
    [][\A cache_readable \in BOOLEAN :
          load_model("none", cache_readable) =>
              /\ (popular_movies_file.exists /\ cache_readable) =>
                     /\ popular_movie_ids_fallback' = popular_movies_file.content
                     /\ popular_movies_file' = popular_movies_file
              /\ (popular_movies_file' # popular_movies_file) =>
                     /\ ~popular_movies_file.exists \/ ~cache_readable
                     /\ popular_movies_file'.exists
                     /\ popular_movies_file'.content = popular_movie_ids_fallback'
      ]_vars

\* the list of a loaded service is the content of the cache file and not what
\* a computation from the ratings or the model would give
C26_Witness ==
    /\ model_loaded /\ last = Idle
    /\ raw_to_inner_iid_map # <<>>
    /\ db.engine /\ db.up
    /\ popular_movies_file = [exists |-> TRUE, content |-> CachedPopular]
    /\ popular_movie_ids_fallback = CachedPopular

\* the file was there, could not be read, and was written again
C26_WitnessRewritten ==
    /\ model_loaded /\ last = Idle
    /\ popular_movies_file.exists
    /\ popular_movies_file.content # CachedPopular
    /\ popular_movie_ids_fallback = popular_movies_file.content

Outcomes == {"direct_hits", "enhanced_hits", "misses"}

OutcomeSum(stats) == stats.direct_hits + stats.enhanced_hits + stats.misses

\* the counters after one call that started from the counters `before`:
\* total_requests and exactly one outcome counter are one higher
CountedOnce(before, after) ==
    /\ after.total_requests = before.total_requests + 1
    /\ \E f \in Outcomes :
          /\ after[f] = before[f] + 1
          /\ \A g \in Outcomes \ {f} : after[g] = before[g]
    /\ after.errors >= before.errors

\* C27: a forward resolver call that reaches the lookup adds one to
\* total_requests and one to exactly one of direct_hits, enhanced_hits and
\* misses, and adds to errors exactly when a query of the store raised; after
\* every sequence of calls made one after the other total_requests =
\* direct_hits + enhanced_hits + misses.
C27_CountersAddUp ==
    [][/\ (last'.op = "forward" /\ last'.service = "unified") =>
              /\ CountedOnce(mapping_stats, mapping_stats')
              /\ (mapping_stats'.errors > mapping_stats.errors) <=>
                     (db.engine /\ ~db.up /\ ~DictHas(raw_to_inner_iid_map, last'.imdb_id))
              /\ mapping_stats'.total_requests = OutcomeSum(mapping_stats')
       /\ (last'.op = "forward" /\ last'.service = "movie_data") =>
              IF db.engine
              THEN /\ CountedOnce(ZeroStats, last'.stats)
                   /\ (last'.stats.errors > 0) <=> ~db.up
              ELSE last'.stats = ZeroStats
      ]_vars

\* two calls one after the other, the first a hit and the second a miss with
\* the store down
C27_Witness ==
    /\ last.op = "forward" /\ last.service = "unified"
    /\ mapping_stats.total_requests = 2
    /\ mapping_stats.misses = 1
    /\ mapping_stats.errors = 2
    /\ mapping_stats.direct_hits + mapping_stats.enhanced_hits = 1

\* MovieDataService: a query that raised counts as an error and as a miss
C27_WitnessMovieData ==
    /\ last.op = "forward" /\ last.service = "movie_data"
    /\ last.stats.total_requests = 1 /\ last.stats.errors = 1 /\ last.stats.misses = 1

\* C28: a request answered after load_model has finished with a failure,
\* while a cache file of the popular list exists, gets the first n entries of
\* the list in that file with the loading message.
C28_FailedLoadServesCache ==
    (/\ last.op = "by_profile" /\ last.during = "failed"
     /\ ~model_loaded
     /\ popular_movies_file.exists) =>
        /\ last.r.message = MsgLoading
        /\ last.r.ids = PySlice(popular_movies_file.content, last.n)

NoDuplicates(seq) == \A i, j \in 1..Len(seq) : seq[i] = seq[j] => i = j

\* C29: the id list of an answer of the personalised path (message
\* "Generated k ...") holds no identifier twice.
C29_NoDuplicateIds ==
    (/\ last.op = "by_profile" /\ ~last.r.raised
     /\ last.r.message.kind = "generated") =>
        NoDuplicates(last.r.ids)

\* ------------------------------------------------------------------------
\* Requests on a model whose vectors add up beyond the exact range: the sum
\* of three liked vectors depends on the order of the additions.
\* ------------------------------------------------------------------------
E == <<"E">>

CatRounding ==
    [qi |-> << <<7, 2>>, <<2, 7>>, <<2, 2>>, <<1, 0>>, <<0, 1>> >>,
     raw_to_inner_iid_map |-> << <<A, 0>>, <<B, 1>>, <<C, 2>>, <<D, 3>>, <<E, 4>> >>,
     inner_to_raw_iid_map |-> << <<0, A>>, <<1, B>>, <<2, C>>, <<3, D>>, <<4, E>> >>,
     all_movie_imdb_ids |-> {A, B, C, D, E}]

InitRounding ==
    /\ model_loaded = FALSE
    /\ qi = <<>>
    /\ raw_to_inner_iid_map = <<>>
    /\ inner_to_raw_iid_map = <<>>
    /\ all_movie_imdb_ids = {}
    /\ popular_movie_ids_fallback = <<>>
    /\ popular_movies_file \in {[exists |-> FALSE, content |-> <<>>],
                                [exists |-> TRUE, content |-> CachedPopular]}
    /\ db \in {NoEngine} \cup {[engine |-> TRUE, up |-> TRUE, has_enhanced |-> h] : h \in BOOLEAN}
    /\ mapping_stats = ZeroStats
    /\ models_dir = CatRounding
    /\ last = Idle
    /\ load_pc = "not_started"

RoundingProfiles == SeqsUpTo({A, B, C}, MaxLiked + 1)

NextRounding ==
    \/ \E cache_readable \in BOOLEAN : load_model("none", cache_readable)
    \/ /\ last = Idle
       /\ \E imdb_ids \in RoundingProfiles, n \in NRange :
              get_profile_recommendations(imdb_ids, n)

SpecRounding == InitRounding /\ [][NextRounding]_vars

\* the orderings of a list
PermsOf(seq) == {[i \in 1..Len(seq) |-> seq[f[i]]] : f \in Perms(1..Len(seq))}

\* C30: on the loaded model, the request answered for a liked list gets the
\* same ordered id list and the same message as the request for any other
\* ordering of that list would.
C30_OrderIndependent ==
    (last.op = "by_profile" /\ model_loaded) =>
        \A p \in PermsOf(last.imdb_ids) :
            \A scan \in ScansOf(db) :
                LET other == get_recommendations_for_profile(Service, p, last.n, scan)
                    this == get_recommendations_for_profile(Service, last.imdb_ids, last.n, scan)
                IN  other.ids = this.ids /\ other.message = this.message

====
